---- MODULE Spec2Model ----
\* Verification model of francois-baptiste/MADRL:
\*   madrl_environments/cas/multi_aircraft.py  (MultiAircraftEnv, Aircraft)
\*   rltools/rltools/algos/dqn.py              (DQN)
\*   rltools/rltools/nn.py                     (Model.save_h5 / load_h5)
\*
\* Geometry is restricted to aircraft placed on the line y = 0 and flown with
\* a zero turn command, so that headings are 0 or -pi, cos(heading) is +1/-1
\* and every distance is an integer number of metres. Angles are integers in
\* units of pi / PI.
EXTENDS Integers, Sequences, FiniteSets, TLC

\* ------------------------------------------------------------------ bounds
NAgentsMax == 2          \* largest n_agents the environment is built with
MaxT == 3                \* environment steps explored per environment object
SmallTimeLimit == 1      \* a non-default max_time_steps constructor argument
NIter == 4               \* n_iter of the DQN run
TrajSimLen == 2          \* traj_sim_len of the DQN run
MaxExperience == 2       \* largest max_experience_size the DQN is built with
MaxUpdateStep == 2       \* largest target_update_step the DQN is built with
MaxSteps == 4            \* environment steps simulated by one DQN run
MaxSaveFreq == 2         \* largest save_freq train is called with
FleetMax == 3            \* other aircraft around the aircraft under call
CapMax == 2              \* largest sensor_capacity of the aircraft under call
MaxCycles == 1           \* apply_action / get_observation / reward rounds
AngleMax == 52           \* norm_angle inputs range over -AngleMax..AngleMax

\* ------------------------------------------------- program constants (env)
DEST_THRESHOLD == 100
SENSING_RANGE == 1000
SENSOR_CAPACITY == 4
NMAC_RANGE == 150
MIN_V == 15
MAX_V == 45
MAX_ACC == 5
DT == 1
MAX_TIME_STEPS == 2000
MIN_CIRCLE_RADIUS == 3000
INNER_RADIUS == 2000
OUTTER_RADIUS == 4000
AIRSPACE_WIDTH == 6000
REW_ARRIVAL == 15
REW_CLOSING_X10 == 25    \* rew_closing = 2.5, rewards are kept in tenths
REW_NMAC == -15

TRAINING_SCENARIOS == {"circle", "annulus", "square"}

\* math.pi, in the model's angle unit (a quarter of pi)
PI == 4

\* MAX_TURN_RATE, in the model's turn-rate unit (a tenth of MAX_TURN_RATE)
MAX_TURN_RATE == 10

VARIABLES
    \* MultiAircraftEnv
    t, aircraft, n_agents, constant_n_agents, max_time_steps, training_mode,
    circle_radius, sensor_capacity,
    \* what the last environment call did and returned
    lastOp, ret_obs, ret_rewards, ret_done, ret_err,
    \* the ids of the aircraft that were in the collection when that call began
    pre_ids,
    \* DQN: configuration, position in train/step, and state
    target_update_step, max_experience_size,
    pc, itr, sim_t, eps, eps_used, memory, inserted, q_primary, q_target,
    synced_params, batch, batch_qvals, batch_qtargets, q_loss, fields_q_loss,
    \* train's save_freq argument, the last record given to log.write and the
    \* snapshots given to log.write_snapshot
    save_freq, logged, snapshots,
    \* Model.save_h5 / load_h5: live parameters, checkpoint file, last call
    live, h5, h5op, load_result, save_result,
    \* calls on one aircraft (fleet[1]) among the others of its environment:
    \* env.aircraft, env.sensor_capacity, the last call, its argument and its
    \* returned value, and the number of apply_action rounds so far
    fleet, ucap, ucall, uarg, uret, ucycles

envVars == <<t, aircraft, n_agents, constant_n_agents, max_time_steps,
             training_mode, circle_radius, sensor_capacity,
             lastOp, ret_obs, ret_rewards, ret_done, ret_err, pre_ids>>

dqnVars == <<target_update_step, max_experience_size, pc, itr, sim_t, eps,
             eps_used, memory, inserted, q_primary, q_target, synced_params,
             batch, batch_qvals, batch_qtargets, q_loss, fields_q_loss,
             save_freq, logged, snapshots>>

h5Vars == <<live, h5, h5op, load_result, save_result>>

unitVars == <<fleet, ucap, ucall, uarg, uret, ucycles>>

vars == <<envVars, dqnVars, h5Vars, unitVars>>

\* ---------------------------------------------------------------- helpers
Abs(n) == IF n < 0 THEN -n ELSE n

Min(a, b) == IF a <= b THEN a ELSE b

\* a clip without the upper limit
clip_NoUpper(x, lo, hi) == IF x < lo THEN lo ELSE x

\* np.clip
clip(x, lo, hi) == IF x < lo THEN lo ELSE IF x > hi THEN hi ELSE x

RECURSIVE Repeat(_, _)
Repeat(s, n) == IF n <= 0 THEN <<>> ELSE s \o Repeat(s, n - 1)

RemoveAt(s, i) == [k \in 1..(Len(s) - 1) |-> IF k < i THEN s[k] ELSE s[k + 1]]

Ids(arr) == {arr[i].id : i \in 1..Len(arr)}

\* TERM_PAIRWISE_OBS = [1] * 4, written with the numerators that normalise to 1
\* (distance / SENSING_RANGE, angle / pi, angle / pi, v / MAX_V).
TERM_PAIRWISE_OBS == <<SENSING_RANGE, PI, PI, MAX_V>>

\* norm_angle: (angle + pi) % (2 * pi) - pi. The % of Python and of TLA+
\* both take the sign of the (positive) divisor.
norm_angle(angle) == ((angle + PI) % (2 * PI)) - PI

\* math.atan2(0, dx), and the heading of an aircraft at x with destination
\* dest_x on the line y = 0: norm_angle(atan2(0, dest_x - x)).
Atan2Pi(dx) == IF dx >= 0 THEN 0 ELSE PI

HeadingTo(x, dest_x) == norm_angle(Atan2Pi(dest_x - x))

\* cos(heading) for a heading that is a multiple of pi
CosPi(k) == IF k % (2 * PI) = 0 THEN 1 ELSE -1

agent_dist(a, b) == Abs(a.x - b.x)

\* a comparison that prefers the farther agent
closer_Farther(a, b, ref) == agent_dist(a, ref) >= agent_dist(b, ref)

closer(a, b, ref) == agent_dist(a, ref) <= agent_dist(b, ref)

Swap(arr, i, j) == [arr EXCEPT ![i] = arr[j], ![j] = arr[i]]

\* partition(ref, arr, low, high): Lomuto partition around arr[high].
\* Indices are 1-based here; st = <<arr, i>> is the loop state before index j.
RECURSIVE PartitionLoop(_, _, _, _, _, _)
PartitionLoop(ref, arr, pivot, i, j, high) ==
    IF j >= high THEN <<arr, i>>
    ELSE IF closer(arr[j], pivot, ref)
         THEN PartitionLoop(ref, Swap(arr, i + 1, j), pivot, i + 1, j + 1, high)
         ELSE PartitionLoop(ref, arr, pivot, i, j + 1, high)

partition(ref, arr, low, high) ==
    LET r == PartitionLoop(ref, arr, arr[high], low - 1, low, high)
    IN  <<Swap(r[1], r[2] + 1, high), r[2] + 1>>

RECURSIVE sort_agents(_, _, _, _)
sort_agents(ref, arr, low, high) ==
    IF low < high
    THEN LET p == partition(ref, arr, low, high)
             left == sort_agents(ref, p[1], low, p[2] - 1)
         IN  sort_agents(ref, left, p[2] + 1, high)
    ELSE arr

\* ------------------------------------------------------------------ Aircraft
\* Where Aircraft.__init__ can put an aircraft and its destination, as
\* <<x, dest_x>> on the line y = 0 (init_position_angle 0 or pi, or y = 0 in
\* the square scenario).
Placements(mode, radius) ==
    IF mode = "circle" THEN {<<radius, -radius>>, <<-radius, radius>>}
    ELSE IF mode = "annulus" THEN {<<INNER_RADIUS, -OUTTER_RADIUS>>}
    ELSE {<<0, DEST_THRESHOLD + 10>>, <<AIRSPACE_WIDTH, 0>>}

\* Aircraft.__init__: speed MIN_V, heading towards the destination, the three
\* distances equal, and the initial observation of 4 + 4 * sensor_capacity
\* entries.
NewAircraft(id, pl, cap) ==
    LET d == Abs(pl[2] - pl[1])
    IN  [id |-> id, x |-> pl[1], dest_x |-> pl[2],
         heading |-> HeadingTo(pl[1], pl[2]),
         v |-> MIN_V, turn_rate |-> 0,
         dist_to_dest |-> d, init_dist_to_dest |-> d, prev_dist_to_dest |-> d,
         obs |-> <<MIN_V - MIN_V, 0, d, 0>> \o Repeat(TERM_PAIRWISE_OBS, cap)]

\* Aircraft.apply_action with action = [acc, 0]
apply_action(a, acc) ==
    LET v2 == clip(a.v + MAX_ACC * acc * DT, MIN_V, MAX_V)
        tr == MAX_TURN_RATE * 0
        h2 == norm_angle(a.heading + tr * DT)
        x2 == a.x + CosPi(h2) * v2 * DT
    IN  [a EXCEPT !.v = v2, !.turn_rate = tr, !.heading = h2, !.x = x2,
                  !.prev_dist_to_dest = a.dist_to_dest,
                  !.dist_to_dest = Abs(a.dest_x - x2)]

\* Aircraft.get_pairwise_obs, as numerators: distance in metres, the two
\* angles in units of pi, the intruder's speed.
get_pairwise_obs(a, intruder) ==
    <<agent_dist(a, intruder),
      norm_angle(Atan2Pi(intruder.x - a.x) - a.heading),
      norm_angle(intruder.heading - a.heading),
      intruder.v>>

RECURSIVE Intruders(_, _, _)
Intruders(a, arr, k) ==
    IF k > Len(arr) THEN <<>>
    ELSE (IF agent_dist(a, arr[k]) > 0 /\ agent_dist(a, arr[k]) <= SENSING_RANGE
          THEN <<arr[k]>> ELSE <<>>) \o Intruders(a, arr, k + 1)

RECURSIVE ClosestObs(_, _, _, _)
ClosestObs(a, intr, i, cap) ==
    IF i >= cap THEN <<>>
    ELSE (IF i < Len(intr) THEN get_pairwise_obs(a, intr[i + 1])
          ELSE TERM_PAIRWISE_OBS) \o ClosestObs(a, intr, i + 1, cap)

\* an observation without the padding entries when no intruder is in range
get_observation_NoPadding(a, arr, cap) ==
    LET own == <<a.v, a.turn_rate, a.dist_to_dest,
                 norm_angle(Atan2Pi(a.dest_x - a.x) - a.heading)>>
        intruders == Intruders(a, arr, 1)
    IN  IF Len(intruders) > 0
        THEN own \o ClosestObs(a, sort_agents(a, intruders, 1, Len(intruders)),
                               0, cap)
        ELSE own

\* Aircraft.get_observation in sensor mode 'closest': the new obs vector
get_observation(a, arr, cap) ==
    LET own == <<a.v, a.turn_rate, a.dist_to_dest,
                 norm_angle(Atan2Pi(a.dest_x - a.x) - a.heading)>>
        intruders == Intruders(a, arr, 1)
    IN  IF Len(intruders) > 0
        THEN own \o ClosestObs(a, sort_agents(a, intruders, 1, Len(intruders)),
                               0, cap)
        ELSE own \o Repeat(TERM_PAIRWISE_OBS, cap)

\* Aircraft.nmac: some intruder-distance entry below NMAC_RANGE / SENSING_RANGE
nmac(a, cap) == \E i \in 0..(cap - 1) : a.obs[4 * (i + 1) + 1] < NMAC_RANGE

\* an arrival test that counts the threshold distance itself as arrived
arrival_Inclusive(a) == a.dist_to_dest <= DEST_THRESHOLD

arrival(a) == a.dist_to_dest < DEST_THRESHOLD

\* Aircraft.reward. The returned number is
\*   tenths / 10 + rew_large_turnrate * (turn / 10) * MAX_TURN_RATE radians,
\* kept as its two integer parts because MAX_TURN_RATE is irrational.
reward(a, cap) ==
    [tenths |-> (IF arrival(a) THEN 10 * REW_ARRIVAL
                 ELSE REW_CLOSING_X10 * (a.prev_dist_to_dest - a.dist_to_dest))
                + (IF nmac(a, cap) THEN 10 * REW_NMAC ELSE 0),
     turn |-> IF 10 * Abs(a.turn_rate) > 7 * MAX_TURN_RATE
              THEN Abs(a.turn_rate) ELSE 0]

\* ---------------------------------------------------------- MultiAircraftEnv
AccCmds == {0, 1}        \* acceleration commands a caller passes to step

\* the joint actions a caller passes to step: every agent the same command,
\* or only the first agent accelerating
JointActions(n) ==
    {[i \in 1..n |-> c] : c \in AccCmds}
        \cup {[i \in 1..n |-> IF i = 1 THEN 1 ELSE 0]}

CircleRadii == {MIN_CIRCLE_RADIUS}

\* ids of the n objects a run of constructor calls creates: the smallest
\* naturals that name no object of `used`
RECURSIVE FreshIds(_, _, _)
FreshIds(used, n, from) ==
    IF n <= 0 THEN <<>>
    ELSE IF from \in used THEN FreshIds(used, n, from + 1)
    ELSE <<from>> \o FreshIds(used, n - 1, from + 1)

\* a reset that appends the new aircraft without emptying the collection
ResetAircraft_NoClear(old, n, pls, cap) ==
    LET ids == FreshIds(Ids(old), n, 1)
    IN  old \o [i \in 1..n |-> NewAircraft(ids[i], pls[i], cap)]

\* reset, lines 293-300: the collection is emptied and n_agents aircraft are
\* constructed and appended
ResetAircraft(old, n, pls, cap) ==
    LET ids == FreshIds(Ids(old), n, 1)
    IN  [i \in 1..n |-> NewAircraft(ids[i], pls[i], cap)]

\* an environment object is explored until it has taken MaxT steps: from its
\* construction (time 0), or from its LateStart-th step on, which is then the
\* first of the MaxT steps
LateStart == MAX_TIME_STEPS + 1

Explored(time) == IF time >= LateStart THEN time - LateStart + 1 ELSE time

\* a done flag that ignores the time counter
StepDone_EmptyOnly(arr, time, limit) == Len(arr) = 0

\* the done flag of step, line 329
StepDone(arr, time, limit) == Len(arr) = 0 \/ time > MAX_TIME_STEPS

\* step, lines 325-351, on collection arr with one acceleration per configured
\* agent: the record of the new collection, the returned values and the
\* exception raised, if any. With fewer aircraft than n_agents the loop of
\* line 325 moves the aircraft there are and then indexes past the end.
StepResult(arr, n, acts, time, limit, cap) ==
    LET L == Len(arr)
        moved == [i \in 1..L |-> IF i <= n THEN apply_action(arr[i], acts[i])
                                  ELSE arr[i]]
        seen == [i \in 1..L |->
                    IF i <= n
                    THEN [moved[i] EXCEPT !.obs = get_observation(moved[i], moved, cap)]
                    ELSE moved[i]]
    IN  IF L < n
        THEN [aircraft |-> moved, t |-> time, obs |-> <<>>, rewards |-> <<>>,
              done |-> FALSE, err |-> "IndexError"]
        ELSE [aircraft |-> seen, t |-> time + 1,
              obs |-> [i \in 1..n |-> seen[i].obs],
              rewards |-> [i \in 1..n |-> reward(seen[i], cap)],
              done |-> StepDone(moved, time, limit), err |-> "none"]

\* n_agents_control with constant_n_agents true, lines 307-310
RECURSIVE ReplaceArrived(_, _, _, _, _)
ReplaceArrived(arr, i, pls, ids, cap) ==
    IF i > Len(arr) THEN arr
    ELSE IF arrival(arr[i])
         THEN ReplaceArrived([arr EXCEPT ![i] = NewAircraft(ids[i], pls[i], cap)],
                             i + 1, pls, ids, cap)
         ELSE ReplaceArrived(arr, i + 1, pls, ids, cap)

\* n_agents_control with constant_n_agents false, lines 312-316; i is the
\* 0-based loop index
RECURSIVE RemoveArrived(_, _)
RemoveArrived(arr, i) ==
    IF i >= Len(arr) THEN arr
    ELSE IF arrival(arr[i + 1])
         THEN RemoveArrived(RemoveAt(arr, i + 1), i + 1)
         ELSE RemoveArrived(arr, i + 1)

ApplyStep(r, op) ==
    /\ aircraft' = r.aircraft
    /\ t' = r.t
    /\ ret_obs' = r.obs
    /\ ret_rewards' = r.rewards
    /\ ret_done' = r.done
    /\ ret_err' = r.err
    /\ lastOp' = op
    /\ pre_ids' = Ids(aircraft)

\* MultiAircraftEnv.step(actions). A caller whose step raised calls reset
\* before it steps again.
Step ==
    /\ Explored(t) < MaxT
    /\ ret_err = "none"
    /\ \E acts \in JointActions(n_agents) :
          ApplyStep(StepResult(aircraft, n_agents, acts, t, max_time_steps,
                               sensor_capacity), "step")
    /\ UNCHANGED <<n_agents, constant_n_agents, max_time_steps, training_mode,
                   circle_radius, sensor_capacity>>
    /\ UNCHANGED <<dqnVars, h5Vars, unitVars>>

\* MultiAircraftEnv.reset(): new scenario, new aircraft, then one step with
\* all-zero actions
Reset ==
    /\ Explored(t) < MaxT
    /\ \E mode \in TRAINING_SCENARIOS :
       \E radius \in (IF mode = "circle" THEN CircleRadii ELSE {circle_radius}) :
       \E pls \in [1..n_agents -> Placements(mode, radius)] :
          /\ training_mode' = mode
          /\ circle_radius' = radius
          /\ ApplyStep(StepResult(ResetAircraft(aircraft, n_agents, pls, sensor_capacity),
                                  n_agents, [i \in 1..n_agents |-> 0], t,
                                  max_time_steps, sensor_capacity), "reset")
    /\ UNCHANGED <<n_agents, constant_n_agents, max_time_steps, sensor_capacity>>
    /\ UNCHANGED <<dqnVars, h5Vars, unitVars>>

\* MultiAircraftEnv.n_agents_control()
NAgentsControl ==
    /\ lastOp \in {"step", "reset"}
    /\ IF constant_n_agents
       THEN \E pls \in [1..Len(aircraft) -> Placements(training_mode, circle_radius)] :
               aircraft' = ReplaceArrived(aircraft, 1, pls,
                               FreshIds(Ids(aircraft), Len(aircraft), 1),
                               sensor_capacity)
       ELSE aircraft' = RemoveArrived(aircraft, 0)
    /\ lastOp' = "n_agents_control"
    /\ pre_ids' = Ids(aircraft)
    /\ UNCHANGED <<t, n_agents, constant_n_agents, max_time_steps, training_mode,
                   circle_radius, sensor_capacity, ret_obs, ret_rewards,
                   ret_done, ret_err>>
    /\ UNCHANGED <<dqnVars, h5Vars, unitVars>>

EnvNext == Step \/ Reset \/ NAgentsControl

\* ------------------------------------------------------------------------ DQN
\* Constructor defaults (dqn.py line 14-16), as integers:
\* eps_start = 0.99, eps_end = 0.05, eps_fraction = 1/2, discount = 0.99.
EPS_START_PCT == 99
EPS_END_PCT == 5
EPS_FRACTION_NUM == 1
EPS_FRACTION_DEN == 2
DISCOUNT_PCT == 99

\* eps is kept as a multiple of 1 / EpsUnit, which makes the decay formula of
\* line 88 an integer: 1 - (1 - eps_end) / (eps_fraction * n_iter) * itr.
EpsUnit == 100 * EPS_FRACTION_NUM * NIter

EpsStart == EPS_START_PCT * EPS_FRACTION_NUM * NIter

EpsEnd == EPS_END_PCT * EPS_FRACTION_NUM * NIter

\* the DQN's environment has one agent; batch_size must exceed it (line 30)
DqnAgents == 1

BatchSize == DqnAgents + 1

\* what env.step can return to the DQN: the joint reward (one entry per
\* agent), the next observation (an abstract id) and the done flag
EnvOutcomes ==
    {[reward |-> [i \in 1..DqnAgents |-> 1], succ_obs |-> 0, done |-> FALSE],
     [reward |-> [i \in 1..DqnAgents |-> 2], succ_obs |-> 1, done |-> TRUE]}

\* Python's s[-n:]
SliceLast(s, n) ==
    LET k == -n
        start == IF k < 0 THEN (IF Len(s) + k < 0 THEN 0 ELSE Len(s) + k)
                 ELSE Min(k, Len(s))
    IN  SubSeq(s, start + 1, Len(s))

\* lines 106-108: append the transition, keep memory[-max_experience_size:]
Remember(mem, tr, size) == SliceLast(Append(mem, tr), size)

\* _pack_into_batch: one row per sampled transition and agent
_pack_into_batch(transitions) ==
    [r \in 1..(Len(transitions) * DqnAgents) |->
        LET i == ((r - 1) \div DqnAgents) + 1
            i_a == ((r - 1) % DqnAgents) + 1
        IN  [reward |-> transitions[i].reward[i_a],
             succ_obs |-> transitions[i].succ_obs,
             done |-> IF transitions[i].done THEN 1 ELSE 0]]

\* target_q_func.compute_qvals for the target network's greedy action: the
\* value a network with parameters `params` gives observation `o`
compute_qvals(params, o) == params + o + 1

\* line 120: the TD targets, in hundredths
QTargets(rows, qvals) ==
    [r \in 1..Len(rows) |->
        100 * rows[r].reward + DISCOUNT_PCT * rows[r].done * qvals[r]]

\* q_func.opt_step: the primary parameters change, a loss comes back
opt_step(params) == params + 1

OptLoss(params, targets) == 1 + (params % 2)

\* a target update on the first instead of the last iteration of each period
SyncDue_AtPeriodStart(i, step) == i % step = 0

\* line 129
SyncDue(i, step) == i % step = step - 1

\* line 87-90, eps in units of 1 / EpsUnit
NextEps(i) ==
    IF i * EPS_FRACTION_DEN < EPS_FRACTION_NUM * NIter
    THEN EpsUnit - (100 - EPS_END_PCT) * EPS_FRACTION_DEN * i
    ELSE EpsEnd

RECURSIVE SeqSum(_)
SeqSum(s) == IF s = <<>> THEN 0 ELSE Head(s) + SeqSum(Tail(s))

\* train, line 82: initialize() copies the primary parameters to the target
TrainInitialize ==
    /\ pc = "start"
    /\ q_target' = q_primary
    /\ synced_params' = q_primary
    /\ pc' = IF itr < NIter THEN "step" ELSE "done"
    /\ UNCHANGED <<target_update_step, max_experience_size, itr, sim_t, eps,
                   eps_used, memory, inserted, q_primary, batch, batch_qvals,
                   batch_qtargets, q_loss, fields_q_loss>>
    /\ UNCHANGED <<save_freq, logged, snapshots>>
    /\ UNCHANGED <<envVars, h5Vars, unitVars>>

\* step, lines 98-99: env.reset() and q_loss = zeros(traj_sim_len)
StepBegin ==
    /\ pc = "step"
    /\ q_loss' = [k \in 1..TrajSimLen |-> 0]
    /\ sim_t' = 0
    /\ pc' = IF TrajSimLen > 0 THEN "sim" ELSE "post"
    /\ UNCHANGED <<target_update_step, max_experience_size, itr, eps, eps_used,
                   memory, inserted, q_primary, q_target, synced_params, batch,
                   batch_qvals, batch_qtargets, fields_q_loss>>
    /\ UNCHANGED <<save_freq, logged, snapshots>>
    /\ UNCHANGED <<envVars, h5Vars, unitVars>>

\* step, lines 102-127: one pass of the inner loop
StepSim ==
    /\ pc = "sim"
    /\ inserted < MaxSteps
    /\ \E out \in EnvOutcomes :
          LET tr == [serial |-> inserted + 1, reward |-> out.reward,
                     succ_obs |-> out.succ_obs, done |-> out.done]
              mem == Remember(memory, tr, max_experience_size)
          IN  /\ memory' = mem
              /\ \E idx \in [1..BatchSize -> 1..Len(mem)] :
                    LET rows == _pack_into_batch([k \in 1..BatchSize |-> mem[idx[k]]])
                        qv == [r \in 1..Len(rows) |->
                                  compute_qvals(q_target, rows[r].succ_obs)]
                        tg == QTargets(rows, qv)
                    IN  /\ batch' = rows
                        /\ batch_qvals' = qv
                        /\ batch_qtargets' = tg
                        /\ q_loss' = [q_loss EXCEPT ![sim_t + 1] = OptLoss(q_primary, tg)]
              /\ pc' = IF out.done \/ sim_t + 1 >= TrajSimLen THEN "post" ELSE "sim"
              /\ sim_t' = sim_t + 1
    /\ eps_used' = eps
    /\ inserted' = inserted + 1
    /\ q_primary' = opt_step(q_primary)
    /\ UNCHANGED <<target_update_step, max_experience_size, itr, eps, q_target,
                   synced_params, fields_q_loss>>
    /\ UNCHANGED <<save_freq, logged, snapshots>>
    /\ UNCHANGED <<envVars, h5Vars, unitVars>>

\* step, lines 129-148: target update, evaluation and the log fields; the
\* reported q_loss is q_loss.mean(), kept as <<sum, length>>
StepEnd ==
    /\ pc = "post"
    /\ q_target' = IF SyncDue(itr, target_update_step) THEN q_primary ELSE q_target
    /\ synced_params' = IF itr % target_update_step = target_update_step - 1
                        THEN q_primary ELSE synced_params
    /\ fields_q_loss' = <<SeqSum(q_loss), Len(q_loss)>>
    /\ pc' = "eps"
    /\ UNCHANGED <<target_update_step, max_experience_size, itr, sim_t, eps,
                   eps_used, memory, inserted, q_primary, batch, batch_qvals,
                   batch_qtargets, q_loss>>
    /\ UNCHANGED <<save_freq, logged, snapshots>>
    /\ UNCHANGED <<envVars, h5Vars, unitVars>>

\* line 93
SnapshotDue(i, freq) == i % freq = 0

\* log.write(iter_info, print_header = itr % 20 == 0): the record handed to
\* the logger
log_write(i, q_loss_field) ==
    [itr |-> i, q_loss |-> q_loss_field, print_header |-> (i % 20 = 0)]

\* log.write_snapshot(sess, q_func, itr): the logger keeps the primary
\* network's parameters under the iteration number
write_snapshot(snaps, params, i) == Append(snaps, <<i, params>>)

\* train, lines 86-94 and the loop of line 83: update eps, write the log
\* record, write a snapshot every save_freq iterations, next iteration
TrainUpdateEps ==
    /\ pc = "eps"
    /\ eps' = NextEps(itr)
    /\ logged' = log_write(itr, fields_q_loss)
    /\ snapshots' = IF SnapshotDue(itr, save_freq)
                    THEN write_snapshot(snapshots, q_primary, itr)
                    ELSE snapshots
    /\ UNCHANGED save_freq
    /\ itr' = itr + 1
    /\ pc' = IF itr + 1 < NIter THEN "step" ELSE "done"
    /\ UNCHANGED <<target_update_step, max_experience_size, sim_t, eps_used,
                   memory, inserted, q_primary, q_target, synced_params, batch,
                   batch_qvals, batch_qtargets, q_loss, fields_q_loss>>
    /\ UNCHANGED <<envVars, h5Vars, unitVars>>

DqnNext == TrainInitialize \/ StepBegin \/ StepSim \/ StepEnd \/ TrainUpdateEps

\* ------------------------------------------------- Model.save_h5 / load_h5
ArrayLen == 2            \* elements per parameter array

\* get_variables(): the model's variables, in creation order, all under the
\* variable scope VarScope
Variables == <<"net/W:0", "net/b:0">>

VarScope == "net"

VarNames == {Variables[i] : i \in 1..Len(Variables)}

\* Python's order on the variable names ('W' sorts before 'b')
NameRank(name) == CHOOSE i \in 1..Len(Variables) : Variables[i] = name

ParamValues == [1..ArrayLen -> {0, 1}]

\* hash_array, line 29: '%.10f,%.10f,%d' % (mean, var, argmax). For arrays of
\* one length the string is determined by, and determines, the sum (mean), the
\* sum of squared deviations (variance) and the first index of the maximum.
hash_array(a) ==
    LET n == Len(a)
        sum == SeqSum(a)
        sumsq == SeqSum([i \in 1..n |-> a[i] * a[i]])
        argmax == CHOOSE i \in 1..n :
                     /\ \A j \in 1..n : a[j] <= a[i]
                     /\ \A j \in 1..(i - 1) : a[j] < a[i]
    IN  <<sum, n * sumsq - sum * sum, argmax - 1>>

\* sorted(...) of line 31 on (name, hash) pairs with distinct names
SortedByName(items) ==
    CHOOSE s \in [1..Len(items) -> {items[i] : i \in 1..Len(items)}] :
        /\ \A i, j \in 1..Len(items) : i < j => NameRank(s[i][1]) < NameRank(s[j][1])

\* _hash_name2array, lines 30-32: the string that is digested is the join of
\* one '%s %s' per sorted (name, hash) pair; the format is never applied to
\* the pair. The SHA-1 digest is identified with the digested string.
_hash_name2array(name2array) ==
    LET pairs == SortedByName([i \in 1..Len(name2array) |->
                     <<name2array[i][1], hash_array(name2array[i][2])>>])
    IN  <<"sha1", [i \in 1..Len(pairs) |-> "%s %s"]>>

\* savehash for a session whose variables hold `vals`
savehash(vals) ==
    _hash_name2array([i \in 1..Len(Variables) |-> <<Variables[i], vals[Variables[i]]>>])

\* save_h5, lines 53-54, from the k-th variable on: the datasets of the group
\* after the loop and whether it raised. dset[v.name] = val creates a link and
\* does not replace an existing name: the loop raises at the first variable
\* that is already in the group, with the earlier ones written.
RECURSIVE SaveLoop(_, _, _)
SaveLoop(data, vals, k) ==
    IF k > Len(Variables) THEN [data |-> data, raised |-> FALSE]
    ELSE IF Variables[k] \in DOMAIN data THEN [data |-> data, raised |-> TRUE]
    ELSE SaveLoop([n \in (DOMAIN data) \cup {Variables[k]} |->
                      IF n = Variables[k] THEN vals[n] ELSE data[n]],
                  vals, k + 1)

\* save_h5, lines 43-56, on the group of `key`: the file afterwards and how
\* the call ends. The group is created if it is not there, the loop writes
\* one dataset per variable, and then the hash is stored as attribute 'hash'
\* of the key's group itself (path ""); when the loop raises, no hash is
\* written.
save_h5(file, vals) ==
    LET r == SaveLoop(file.data, vals, 1)
    IN  IF r.raised
        THEN [file |-> [file EXCEPT !.exists = TRUE, !.data = r.data],
              result |-> "RuntimeError"]
        ELSE [file |-> [exists |-> TRUE,
                        data |-> r.data,
                        attrs |-> [g \in (DOMAIN file.attrs) \cup {""} |->
                                     IF g = "" THEN savehash(vals)
                                     ELSE file.attrs[g]],
                        corrupted |-> file.corrupted],
              result |-> "ok"]

\* load_h5, lines 64-80: the values assigned to the session and how the call
\* ends. The stored hash is read from the attributes of dset[varscope.name].
load_h5(file, vals) ==
    IF ~file.exists THEN [live |-> vals, result |-> "KeyError"]
    ELSE IF \E n \in VarNames : n \notin DOMAIN file.data
         THEN [live |-> vals, result |-> "RuntimeError"]
    ELSE LET loaded == [n \in VarNames |-> file.data[n]]
         IN  [live |-> loaded,
              result |-> IF VarScope \notin DOMAIN file.attrs THEN "KeyError"
                         ELSE IF savehash(loaded) = file.attrs[VarScope] THEN "ok"
                         ELSE "AssertionError"]

NoFile == [exists |-> FALSE, data |-> <<>>, attrs |-> <<>>, corrupted |-> FALSE]

\* the session's parameters change (training, or a second model of the same
\* structure with its own initial values)
SetParams ==
    /\ \E v \in [VarNames -> ParamValues] : v # live /\ live' = v
    /\ h5op' = "set"
    /\ UNCHANGED <<h5, load_result, save_result>>
    /\ UNCHANGED <<envVars, dqnVars, unitVars>>

SaveH5 ==
    /\ LET r == save_h5(h5, live)
       IN  /\ h5' = r.file
           /\ save_result' = r.result
    /\ h5op' = "save"
    /\ UNCHANGED <<live, load_result>>
    /\ UNCHANGED <<envVars, dqnVars, unitVars>>

\* one stored value of the checkpoint is changed
Corrupt ==
    /\ h5.exists
    /\ ~h5.corrupted
    /\ \E n \in VarNames, i \in 1..ArrayLen :
          h5' = [h5 EXCEPT !.data[n][i] = 1 - h5.data[n][i], !.corrupted = TRUE]
    /\ h5op' = "corrupt"
    /\ UNCHANGED <<live, load_result, save_result>>
    /\ UNCHANGED <<envVars, dqnVars, unitVars>>

LoadH5 ==
    /\ LET r == load_h5(h5, live)
       IN  /\ live' = r.live
           /\ load_result' = r.result
    /\ h5op' = "load"
    /\ UNCHANGED <<h5, save_result>>
    /\ UNCHANGED <<envVars, dqnVars, unitVars>>

H5Next == SetParams \/ SaveH5 \/ Corrupt \/ LoadH5

\* ------------------------------------------------- calls on one aircraft
\* acceleration commands passed to apply_action
AccRange == {-1, 0, 1}

\* where the other aircraft are (own aircraft at x = 0): two inside
\* SENSING_RANGE, one of them inside NMAC_RANGE, and one outside
OtherXs == {100, 400, 1500}

\* the aircraft under call as a run has left it: destination (own x is 0),
\* speed, and the turn rate of its last turn command
OwnInputs ==
    [dest_x : {DEST_THRESHOLD - 1, DEST_THRESHOLD + MIN_V, MIN_CIRCLE_RADIUS},
     v : {MIN_V, MIN_V + 1, MAX_V - 1, MAX_V},
     turn_rate : {0, 7, 8, -8}]

\* env.aircraft: the aircraft under call first, then the others, each as
\* constructed by Aircraft.__init__ except for the own speed and turn rate
MakeFleet(own, xs, cap) ==
    [i \in 1..(Len(xs) + 1) |->
        IF i = 1
        THEN [NewAircraft(1, <<0, own.dest_x>>, cap)
                 EXCEPT !.v = own.v, !.turn_rate = own.turn_rate]
        ELSE NewAircraft(i, <<xs[i - 1], xs[i - 1] - MIN_CIRCLE_RADIUS>>, cap)]

\* aircraft.apply_action([acc, 0])
ApplyAction ==
    /\ ucall \in {"init", "reward"}
    /\ ucycles < MaxCycles
    /\ \E acc \in AccRange :
          /\ fleet' = [fleet EXCEPT ![1] = apply_action(fleet[1], acc)]
          /\ uarg' = <<fleet[1].v, acc>>
    /\ uret' = fleet'[1].v
    /\ ucall' = "apply_action"
    /\ ucycles' = ucycles + 1
    /\ UNCHANGED ucap
    /\ UNCHANGED <<envVars, dqnVars, h5Vars>>

\* aircraft.get_observation(), sensor mode 'closest'
GetObservation ==
    /\ ucall = "apply_action"
    /\ fleet' = [fleet EXCEPT ![1].obs = get_observation(fleet[1], fleet, ucap)]
    /\ uarg' = Len(Intruders(fleet[1], fleet, 1))
    /\ uret' = fleet'[1].obs
    /\ ucall' = "get_observation"
    /\ UNCHANGED <<ucap, ucycles>>
    /\ UNCHANGED <<envVars, dqnVars, h5Vars>>

\* aircraft.reward()
Reward ==
    /\ ucall \in {"init", "get_observation"}
    /\ uret' = reward(fleet[1], ucap)
    /\ uarg' = 0
    /\ ucall' = "reward"
    /\ UNCHANGED <<fleet, ucap, ucycles>>
    /\ UNCHANGED <<envVars, dqnVars, h5Vars>>

\* sort_agents(ref, arr, 0, len(arr) - 1) on the list of the other aircraft,
\* possibly with its first entry in the list a second time, with the aircraft
\* under call as the reference
SortAgents ==
    /\ ucall = "init"
    /\ \E d \in 0..Min(1, Len(fleet) - 1) :
          LET arr == Tail(fleet) \o SubSeq(Tail(fleet), 1, d)
          IN  /\ uarg' = arr
              /\ uret' = sort_agents(fleet[1], arr, 1, Len(arr))
    /\ ucall' = "sort_agents"
    /\ UNCHANGED <<fleet, ucap, ucycles>>
    /\ UNCHANGED <<envVars, dqnVars, h5Vars>>

AircraftNext == ApplyAction \/ GetObservation \/ Reward \/ SortAgents

\* norm_angle(angle)
NormAngle ==
    /\ \E angle \in (-AngleMax)..AngleMax :
          /\ uarg' = angle
          /\ uret' = norm_angle(angle)
    /\ ucall' = "norm_angle"
    /\ UNCHANGED <<fleet, ucap, ucycles>>
    /\ UNCHANGED <<envVars, dqnVars, h5Vars>>

AngleNext == NormAngle

\* ------------------------------------------------------------ specifications
\* the environment as constructed, under any sequence of calls; the DQN and
\* the checkpoint file are not used
Init ==
    /\ t = 0
    /\ aircraft = <<>>
    /\ n_agents \in 0..NAgentsMax
    /\ constant_n_agents \in BOOLEAN
    /\ max_time_steps \in {SmallTimeLimit, MAX_TIME_STEPS}
    /\ training_mode = "circle"
    /\ circle_radius = 0
    /\ sensor_capacity = SENSOR_CAPACITY
    /\ lastOp = "init"
    /\ ret_obs = <<>>
    /\ ret_rewards = <<>>
    /\ ret_done = FALSE
    /\ ret_err = "none"
    /\ pre_ids = {}
    /\ target_update_step = 1
    /\ max_experience_size = 1
    /\ pc = "start"
    /\ itr = 0
    /\ sim_t = 0
    /\ eps = EpsStart
    /\ eps_used = -1
    /\ memory = <<>>
    /\ inserted = 0
    /\ q_primary = 1
    /\ q_target = 0
    /\ synced_params = -1
    /\ batch = <<>>
    /\ batch_qvals = <<>>
    /\ batch_qtargets = <<>>
    /\ q_loss = <<>>
    /\ fields_q_loss = <<0, 1>>
    /\ save_freq = 1
    /\ logged = <<>>
    /\ snapshots = <<>>
    /\ live = [n \in VarNames |-> [i \in 1..ArrayLen |-> 0]]
    /\ h5 = NoFile
    /\ h5op = "init"
    /\ load_result = "none"
    /\ save_result = "none"
    /\ fleet = <<>>
    /\ ucap = 0
    /\ ucall = "init"
    /\ uarg = 0
    /\ uret = 0
    /\ ucycles = 0

Spec == Init /\ [][EnvNext]_vars

\* an environment object that has been reset LateStart times since it was
\* constructed and has just returned from the last of these resets: each
\* reset's step added 1 to t, the collection holds the aircraft of the last
\* reset (numbered 1..n_agents, those of the reset before it having been
\* n_agents + 1 .. 2 * n_agents), and circle_radius is that of the last reset
\* in the circle scenario, if there was one
InitLate ==
    /\ n_agents \in 0..NAgentsMax
    /\ constant_n_agents \in BOOLEAN
    /\ max_time_steps = MAX_TIME_STEPS
    /\ sensor_capacity = SENSOR_CAPACITY
    /\ \E mode \in TRAINING_SCENARIOS :
       \E radius \in (IF mode = "circle" THEN CircleRadii ELSE {0} \cup CircleRadii) :
       \E pls \in [1..n_agents -> Placements(mode, radius)] :
          LET prev == {n_agents + i : i \in 1..n_agents}
              r == StepResult(ResetAircraft([i \in 1..n_agents |-> [id |-> n_agents + i]],
                                            n_agents, pls, sensor_capacity),
                              n_agents, [i \in 1..n_agents |-> 0], LateStart - 1,
                              max_time_steps, sensor_capacity)
          IN  /\ training_mode = mode
              /\ circle_radius = radius
              /\ t = r.t
              /\ aircraft = r.aircraft
              /\ ret_obs = r.obs
              /\ ret_rewards = r.rewards
              /\ ret_done = r.done
              /\ ret_err = r.err
              /\ lastOp = "reset"
              /\ pre_ids = prev
    /\ target_update_step = 1
    /\ max_experience_size = 1
    /\ pc = "start"
    /\ itr = 0
    /\ sim_t = 0
    /\ eps = EpsStart
    /\ eps_used = -1
    /\ memory = <<>>
    /\ inserted = 0
    /\ q_primary = 1
    /\ q_target = 0
    /\ synced_params = -1
    /\ batch = <<>>
    /\ batch_qvals = <<>>
    /\ batch_qtargets = <<>>
    /\ q_loss = <<>>
    /\ fields_q_loss = <<0, 1>>
    /\ save_freq = 1
    /\ logged = <<>>
    /\ snapshots = <<>>
    /\ live = [n \in VarNames |-> [i \in 1..ArrayLen |-> 0]]
    /\ h5 = NoFile
    /\ h5op = "init"
    /\ load_result = "none"
    /\ save_result = "none"
    /\ fleet = <<>>
    /\ ucap = 0
    /\ ucall = "init"
    /\ uarg = 0
    /\ uret = 0
    /\ ucycles = 0

SpecLate == InitLate /\ [][EnvNext]_vars

\* one DQN.train run from a newly constructed DQN
InitDqn ==
    /\ t = 0
    /\ aircraft = <<>>
    /\ n_agents = 1
    /\ constant_n_agents = FALSE
    /\ max_time_steps = MAX_TIME_STEPS
    /\ training_mode = "circle"
    /\ circle_radius = 0
    /\ sensor_capacity = SENSOR_CAPACITY
    /\ lastOp = "init"
    /\ ret_obs = <<>>
    /\ ret_rewards = <<>>
    /\ ret_done = FALSE
    /\ ret_err = "none"
    /\ pre_ids = {}
    /\ target_update_step \in 1..MaxUpdateStep
    /\ max_experience_size \in 0..MaxExperience
    /\ pc = "start"
    /\ itr = 0
    /\ sim_t = 0
    /\ eps = EpsStart
    /\ eps_used = -1
    /\ memory = <<>>
    /\ inserted = 0
    /\ q_primary = 1
    /\ q_target = 0
    /\ synced_params = -1
    /\ batch = <<>>
    /\ batch_qvals = <<>>
    /\ batch_qtargets = <<>>
    /\ q_loss = <<>>
    /\ fields_q_loss = <<0, 1>>
    /\ save_freq \in 1..MaxSaveFreq
    /\ logged = <<>>
    /\ snapshots = <<>>
    /\ live = [n \in VarNames |-> [i \in 1..ArrayLen |-> 0]]
    /\ h5 = NoFile
    /\ h5op = "init"
    /\ load_result = "none"
    /\ save_result = "none"
    /\ fleet = <<>>
    /\ ucap = 0
    /\ ucall = "init"
    /\ uarg = 0
    /\ uret = 0
    /\ ucycles = 0

SpecDqn == InitDqn /\ [][DqnNext]_vars

\* a model's checkpoint file under save, corruption and load
InitH5 ==
    /\ t = 0
    /\ aircraft = <<>>
    /\ n_agents = 1
    /\ constant_n_agents = FALSE
    /\ max_time_steps = MAX_TIME_STEPS
    /\ training_mode = "circle"
    /\ circle_radius = 0
    /\ sensor_capacity = SENSOR_CAPACITY
    /\ lastOp = "init"
    /\ ret_obs = <<>>
    /\ ret_rewards = <<>>
    /\ ret_done = FALSE
    /\ ret_err = "none"
    /\ pre_ids = {}
    /\ target_update_step = 1
    /\ max_experience_size = 1
    /\ pc = "start"
    /\ itr = 0
    /\ sim_t = 0
    /\ eps = EpsStart
    /\ eps_used = -1
    /\ memory = <<>>
    /\ inserted = 0
    /\ q_primary = 1
    /\ q_target = 0
    /\ synced_params = -1
    /\ batch = <<>>
    /\ batch_qvals = <<>>
    /\ batch_qtargets = <<>>
    /\ q_loss = <<>>
    /\ fields_q_loss = <<0, 1>>
    /\ save_freq = 1
    /\ logged = <<>>
    /\ snapshots = <<>>
    /\ live \in [VarNames -> ParamValues]
    /\ h5 = NoFile
    /\ h5op = "init"
    /\ load_result = "none"
    /\ save_result = "none"
    /\ fleet = <<>>
    /\ ucap = 0
    /\ ucall = "init"
    /\ uarg = 0
    /\ uret = 0
    /\ ucycles = 0

SpecH5 == InitH5 /\ [][H5Next]_vars

\* one aircraft among up to FleetMax others, in an environment with sensor
\* capacity 0..CapMax, under apply_action, get_observation, reward, and
\* sort_agents on the list of the others
InitAircraft ==
    /\ t = 0
    /\ aircraft = <<>>
    /\ n_agents = 1
    /\ constant_n_agents = FALSE
    /\ max_time_steps = MAX_TIME_STEPS
    /\ training_mode = "circle"
    /\ circle_radius = 0
    /\ sensor_capacity = SENSOR_CAPACITY
    /\ lastOp = "init"
    /\ ret_obs = <<>>
    /\ ret_rewards = <<>>
    /\ ret_done = FALSE
    /\ ret_err = "none"
    /\ pre_ids = {}
    /\ target_update_step = 1
    /\ max_experience_size = 1
    /\ pc = "start"
    /\ itr = 0
    /\ sim_t = 0
    /\ eps = EpsStart
    /\ eps_used = -1
    /\ memory = <<>>
    /\ inserted = 0
    /\ q_primary = 1
    /\ q_target = 0
    /\ synced_params = -1
    /\ batch = <<>>
    /\ batch_qvals = <<>>
    /\ batch_qtargets = <<>>
    /\ q_loss = <<>>
    /\ fields_q_loss = <<0, 1>>
    /\ save_freq = 1
    /\ logged = <<>>
    /\ snapshots = <<>>
    /\ live = [n \in VarNames |-> [i \in 1..ArrayLen |-> 0]]
    /\ h5 = NoFile
    /\ h5op = "init"
    /\ load_result = "none"
    /\ save_result = "none"
    /\ ucap \in 0..CapMax
    /\ ucall = "init"
    /\ uarg = 0
    /\ uret = 0
    /\ ucycles = 0
    /\ \E own \in OwnInputs, n \in 0..FleetMax :
          \E xs \in [1..n -> OtherXs] : fleet = MakeFleet(own, xs, ucap)

SpecAircraft == InitAircraft /\ [][AircraftNext]_vars

\* norm_angle under any sequence of calls
InitAngle ==
    /\ t = 0
    /\ aircraft = <<>>
    /\ n_agents = 1
    /\ constant_n_agents = FALSE
    /\ max_time_steps = MAX_TIME_STEPS
    /\ training_mode = "circle"
    /\ circle_radius = 0
    /\ sensor_capacity = SENSOR_CAPACITY
    /\ lastOp = "init"
    /\ ret_obs = <<>>
    /\ ret_rewards = <<>>
    /\ ret_done = FALSE
    /\ ret_err = "none"
    /\ pre_ids = {}
    /\ target_update_step = 1
    /\ max_experience_size = 1
    /\ pc = "start"
    /\ itr = 0
    /\ sim_t = 0
    /\ eps = EpsStart
    /\ eps_used = -1
    /\ memory = <<>>
    /\ inserted = 0
    /\ q_primary = 1
    /\ q_target = 0
    /\ synced_params = -1
    /\ batch = <<>>
    /\ batch_qvals = <<>>
    /\ batch_qtargets = <<>>
    /\ q_loss = <<>>
    /\ fields_q_loss = <<0, 1>>
    /\ save_freq = 1
    /\ logged = <<>>
    /\ snapshots = <<>>
    /\ live = [n \in VarNames |-> [i \in 1..ArrayLen |-> 0]]
    /\ h5 = NoFile
    /\ h5op = "init"
    /\ load_result = "none"
    /\ save_result = "none"
    /\ fleet = <<>>
    /\ ucap = 0
    /\ ucall = "init"
    /\ uarg = 0
    /\ uret = 0
    /\ ucycles = 0

SpecAngle == InitAngle /\ [][AngleNext]_vars

\* ------------------------------------------------------- environment claims
StepReturned == lastOp \in {"step", "reset"} /\ ret_err = "none"

\* C1: the done flag a step returns is true iff the aircraft collection is
\* empty or the time counter, as it was when the flag was computed (t - 1
\* after the step's increment), exceeds the max_time_steps the environment was
\* constructed with.
C1_DoneIffEmptyOrOverConfiguredLimit ==
    StepReturned =>
        (ret_done <=> (Len(aircraft) = 0 \/ (t - 1) > max_time_steps))

\* C2: once a step has returned, no aircraft whose dist_to_dest fell below
\* DEST_THRESHOLD during that step is still in the collection (it was removed,
\* or its slot holds a newly constructed aircraft, whose previous and current
\* distances are equal).
C2_ArrivedAircraftLeavesCollection ==
    StepReturned =>
        \A i \in 1..Len(aircraft) :
            ~(aircraft[i].prev_dist_to_dest >= DEST_THRESHOLD
              /\ aircraft[i].dist_to_dest < DEST_THRESHOLD)

\* C7: reset leaves exactly n_agents aircraft, all constructed by this reset
\* (none was in the collection when reset was called), and returns exactly
\* n_agents observation vectors, the i-th being the observation of the i-th
\* aircraft.
C7_ResetPopulatesFreshAircraft ==
    lastOp = "reset" =>
        /\ ret_err = "none"
        /\ Len(aircraft) = n_agents
        /\ Cardinality(Ids(aircraft)) = n_agents
        /\ Ids(aircraft) \cap pre_ids = {}
        /\ Len(ret_obs) = n_agents
        /\ \A i \in 1..n_agents :
              /\ ret_obs[i] = aircraft[i].obs
              /\ Len(ret_obs[i]) = 4 + 4 * sensor_capacity

\* C7 witness: a reset made while the previous episode's aircraft (ids 1 and
\* 2) were alive has returned, with two new aircraft in the collection.
C7_Witness ==
    /\ lastOp = "reset"
    /\ ret_err = "none"
    /\ n_agents = 2
    /\ Len(aircraft) = 2
    /\ pre_ids = {1, 2}
    /\ aircraft[1].id = 3
    /\ Len(ret_obs) = 2

\* C8: with constant_n_agents false, n_agents_control leaves no aircraft that
\* satisfies arrival(), and keeps every aircraft that had not arrived, in
\* the original relative order.
C8_ControlRemovesEveryArrived ==
    [][(NAgentsControl /\ ~constant_n_agents) =>
        /\ \A i \in 1..Len(aircraft') : ~arrival(aircraft'[i])
        /\ aircraft' = SelectSeq(aircraft, LAMBDA a : ~arrival(a))]_vars

\* --------------------------------------------------------------- DQN claims
\* serial numbers of the memory's entries are last - Len + 1 .. last, in order
HoldsMostRecent(mem, last) ==
    \A i \in 1..Len(mem) : mem[i].serial = last - Len(mem) + i

\* C3: the replay memory never holds more than
\* max_experience_size entries, and once more than that many transitions have
\* been inserted it holds exactly the max_experience_size most recent ones in
\* insertion order.
C3_MemoryBoundedMostRecent ==
    /\ Len(memory) <= max_experience_size
    /\ inserted > max_experience_size =>
          (Len(memory) = max_experience_size /\ HoldsMostRecent(memory, inserted))

\* C4: every row of the sampled minibatch gets the TD target
\* reward + discount * (1 - done) * Q_target(next_obs, a'), here in hundredths.
C4_TdTargetBootstrapsUnlessDone ==
    \A r \in 1..Len(batch) :
        batch_qtargets[r] =
            100 * batch[r].reward
            + DISCOUNT_PCT * (1 - batch[r].done) * batch_qvals[r]

\* C5: from initialize() on, the target network's parameters are the primary
\* network's parameters as they were at the most recent synchronisation event
\* (initialize, or the end of the inner loop of an iteration itr with
\* itr mod target_update_step = target_update_step - 1); optimizer steps in
\* between leave them alone.
C5_TargetIsPrimaryAtLastSync ==
    pc # "start" => q_target = synced_params

\* C5 witness: in the third iteration or later, after a target update that
\* followed optimizer steps, the primary network has been stepped again and
\* the target still holds the synchronised parameters.
C5_Witness ==
    /\ pc = "sim"
    /\ itr >= 2
    /\ sim_t >= 1
    /\ target_update_step = 2
    /\ q_target > 1
    /\ q_target = synced_params
    /\ q_primary > q_target

\* C6: in every iteration itr >= eps_fraction * n_iter, the eps with which
\* that iteration's step selects its actions is exactly eps_end.
C6_EpsEndFromHorizonOn ==
    (pc \in {"sim", "post"} /\ sim_t >= 1
     /\ itr * EPS_FRACTION_DEN >= EPS_FRACTION_NUM * NIter)
        => eps_used = EpsEnd

\* -------------------------------------------------------- checkpoint claims
\* C9: a load_h5 of a checkpoint that save_h5 wrote (and nothing changed)
\* completes without error, leaves every parameter at the saved value, and
\* the hash recomputed after loading is the hash save_h5 stored.
C9_CheckpointRoundTrip ==
    (h5op = "load" /\ h5.exists /\ ~h5.corrupted) =>
        /\ load_result = "ok"
        /\ live = [n \in VarNames |-> h5.data[n]]
        /\ savehash(live) = h5.attrs[""]

\* C10: a load_h5 of a checkpoint in which one stored value was changed after
\* save_h5 (so that the parameter's fingerprint differs) fails with the
\* hash-mismatch assertion: the hash of the loaded parameters differs from the
\* hash save_h5 stored.
C10_CorruptionIsDetected ==
    (h5op = "load" /\ h5.corrupted) =>
        /\ load_result = "AssertionError"
        /\ savehash(live) # h5.attrs[""]

\* ------------------------------------------------------------ aircraft claims
\* C11: the speed of every aircraft is within [MIN_V, MAX_V], at construction
\* and after every apply_action, whatever the acceleration command; a command
\* of +1 at speed 44 gives exactly 45 and a command of -1 at speed 16 gives
\* exactly 15.
C11_SpeedWithinLimits ==
    /\ \A i \in 1..Len(fleet) : MIN_V <= fleet[i].v /\ fleet[i].v <= MAX_V
    /\ ucall = "apply_action" =>
          /\ uret = fleet[1].v
          /\ uarg = <<44, 1>> => uret = 45
          /\ uarg = <<16, -1>> => uret = 15

\* C11 witness: apply_action with command +1 at speed 44 has returned, and the
\* speed is 45.
C11_Witness ==
    /\ ucall = "apply_action"
    /\ uarg = <<44, 1>>
    /\ fleet[1].v = 45

\* C12: in sensor mode 'closest' the observation vector of an aircraft has
\* exactly 4 + 4 * sensor_capacity entries, at construction and after every
\* get_observation, for every sensor capacity and every number of aircraft in
\* sensing range.
C12_ObservationLength ==
    /\ \A i \in 1..Len(fleet) : Len(fleet[i].obs) = 4 + 4 * ucap
    /\ ucall = "get_observation" => Len(uret) = 4 + 4 * ucap

\* C12 witness: get_observation has returned with sensor capacity 2 and three
\* aircraft in sensing range.
C12_Witness ==
    /\ ucall = "get_observation"
    /\ ucap = 2
    /\ uarg = 3
    /\ Len(uret) = 12

\* C13: reward() returns the sum of: rew_arrival if dist_to_dest is below
\* DEST_THRESHOLD (99 counts, 100 does not), otherwise rew_closing times the
\* distance closed since the previous step; plus rew_nmac if nmac() holds;
\* plus rew_large_turnrate * |turn_rate| if |turn_rate| exceeds 0.7 *
\* MAX_TURN_RATE; and nothing else.
C13_RewardIsSumOfTerms ==
    ucall = "reward" =>
        LET a == fleet[1]
            goal == IF a.dist_to_dest <= 99 THEN 10 * REW_ARRIVAL
                    ELSE REW_CLOSING_X10 * (a.prev_dist_to_dest - a.dist_to_dest)
            near == IF nmac(a, ucap) THEN 10 * REW_NMAC ELSE 0
            turning == IF Abs(a.turn_rate) > 7 THEN Abs(a.turn_rate) ELSE 0
        IN  uret = [tenths |-> goal + near, turn |-> turning]

\* C13 witness: reward() has returned for an aircraft 99 m from its
\* destination with an intruder inside NMAC_RANGE: arrival and NMAC terms
\* cancel, no closing term.
C13_Witness ==
    /\ ucall = "reward"
    /\ fleet[1].dist_to_dest = 99
    /\ fleet[1].prev_dist_to_dest = 115
    /\ nmac(fleet[1], ucap)
    /\ uret = [tenths |-> 0, turn |-> 0]

\* number of positions of sequence s that hold e
Occurrences(s, e) == Cardinality({i \in 1..Len(s) : s[i] = e})

\* C14: sort_agents terminates and leaves the list a permutation of its
\* original contents in non-decreasing distance from the reference agent.
C14_SortAgentsSortsByDistance ==
    ucall = "sort_agents" =>
        /\ Len(uret) = Len(uarg)
        /\ \A i \in 1..Len(uarg) :
              Occurrences(uret, uarg[i]) = Occurrences(uarg, uarg[i])
        /\ \A i \in 1..(Len(uret) - 1) :
              agent_dist(uret[i], fleet[1]) <= agent_dist(uret[i + 1], fleet[1])

\* C14 witness: a list of four entries, the farthest first and the first
\* entry repeated at the end, has been sorted: both copies are last.
C14_Witness ==
    /\ ucall = "sort_agents"
    /\ Len(uarg) = 4
    /\ uarg[1].x = 1500
    /\ uarg[2].x = 400
    /\ uarg[3].x = 100
    /\ uarg[4] = uarg[1]
    /\ uret[1].x = 100
    /\ uret[3] = uret[4]

\* C15: norm_angle returns a value in (-pi, pi] that differs from its input
\* by a multiple of 2 * pi; norm_angle(pi) = pi and norm_angle(-pi) = pi.
C15_NormAngleInHalfOpenRange ==
    ucall = "norm_angle" =>
        /\ -PI < uret
        /\ uret <= PI
        /\ (uret - uarg) % (2 * PI) = 0
        /\ uarg = PI => uret = PI
        /\ uarg = -PI => uret = PI

\* C16: eps starts at eps_start, never exceeds eps_start, and is never larger
\* than the eps an earlier step of the run selected its actions with.
C16_EpsNeverIncreases ==
    /\ itr = 0 => eps = EpsStart
    /\ eps <= EpsStart
    /\ eps_used # -1 => eps <= eps_used

\* C17: the q_loss that step reports for an iteration is the sum of the
\* losses of the inner-loop steps that were executed, divided by their number
\* (sim_t), also when the loop stopped early.
C17_QLossIsMeanOverExecutedSteps ==
    pc = "eps" =>
        fields_q_loss[1] * sim_t
            = SeqSum(SubSeq(q_loss, 1, sim_t)) * fields_q_loss[2]

\* C18: t never decreases: every step that returns, the one inside reset
\* included, increases it by exactly 1, and nothing else changes it (reset
\* does not set it back); and every step taken when t has exceeded
\* MAX_TIME_STEPS returns done = true, in whatever episode.
C18_TimeCountsWholeLifetime ==
    /\ [][/\ t' >= t
          /\ (lastOp' \in {"step", "reset"} /\ ret_err' = "none") => t' = t + 1
          /\ lastOp' = "n_agents_control" => t' = t]_vars
    /\ []((StepReturned /\ t - 1 > MAX_TIME_STEPS) => ret_done)

\* C18 witness: a reset made when t was MAX_TIME_STEPS + 2, after a step that
\* had already returned done, has constructed aircraft and returned
\* done = true.
C18_Witness ==
    /\ lastOp = "reset"
    /\ ret_err = "none"
    /\ t = MAX_TIME_STEPS + 3
    /\ Len(aircraft) > 0
    /\ ret_done

====
